---------------------------- MODULE Spec2Model ----------------------------
(*************************************************************************)
(* seqHMM: the log-space forward recursion (internalForward) and the     *)
(* Viterbi recursion for mixture hidden Markov models (viterbix).        *)
(*                                                                       *)
(* Numbers.  A C++ double that holds a log-probability is modelled       *)
(* exactly, as the logarithm of a rational: <<"ln", n, d>> is ln(n/d)    *)
(* with n, d > 0 in lowest terms, and NegInf, PosInf and NaN are the     *)
(* IEEE special values.  A double that holds a real-space value (the     *)
(* result of exp) is <<"re", n, d>>, the rational n/d itself, with RInf  *)
(* and RNaN.  Addition of logarithms is multiplication of the rationals, *)
(* so every sum the code forms is computed without rounding.  Rounding   *)
(* and the overflow of exp are outside the model.                        *)
(*************************************************************************)
EXTENDS Integers, Naturals, Sequences, FiniteSets, TLC

----------------------------------------------------------------------------
(* Exact rationals *)

RECURSIVE GCD(_, _)
GCD(a, b) ==
    IF b = 0 THEN a ELSE GCD(b, a % b)

\* n/d in lowest terms (n >= 0, d > 0)
Norm(n, d) ==
    LET g == GCD(n, d) IN <<n \div g, d \div g>>

\* (a/b) * (c/d), cancelling crosswise before multiplying
QMul(a, b, c, d) ==
    LET g1 == GCD(a, d)
        g2 == GCD(c, b)
    IN  IF a = 0 \/ c = 0 THEN <<0, 1>>
        ELSE <<(a \div g1) * (c \div g2), (b \div g2) * (d \div g1)>>

\* (a/b) + (c/d)
QAdd(a, b, c, d) ==
    LET g == GCD(b, d)
    IN  Norm(a * (d \div g) + c * (b \div g), (b \div g) * d)

\* a/b > c/d
QGt(a, b, c, d) ==
    LET g == GCD(b, d)
    IN  a * (d \div g) > c * (b \div g)

----------------------------------------------------------------------------
(* Doubles holding logarithms *)

NegInf == <<"-inf", 0, 1>>
PosInf == <<"+inf", 0, 1>>
NaN == <<"nan", 0, 1>>

\* ln(n/d), n > 0
Ln(n, d) ==
    LET q == Norm(n, d) IN <<"ln", q[1], q[2]>>

IsFinite(x) == x[1] = "ln"
IsNaN(x) == x[1] = "nan"

\* x + y on doubles
Plus(x, y) ==
    CASE IsNaN(x) \/ IsNaN(y) -> NaN
      [] x = NegInf /\ y = PosInf -> NaN
      [] x = PosInf /\ y = NegInf -> NaN
      [] x = NegInf \/ y = NegInf -> NegInf
      [] x = PosInf \/ y = PosInf -> PosInf
      [] OTHER -> LET q == QMul(x[2], x[3], y[2], y[3]) IN <<"ln", q[1], q[2]>>

\* -x on doubles
Neg(x) ==
    CASE x = NegInf -> PosInf
      [] x = PosInf -> NegInf
      [] IsNaN(x) -> NaN
      [] OTHER -> <<"ln", x[3], x[2]>>

\* x - y on doubles
Minus(x, y) == Plus(x, Neg(y))

\* x > y on doubles: false as soon as one side is NaN
Gt(x, y) ==
    CASE IsNaN(x) \/ IsNaN(y) -> FALSE
      [] x = y -> FALSE
      [] x = PosInf \/ y = NegInf -> TRUE
      [] x = NegInf \/ y = PosInf -> FALSE
      [] OTHER -> QGt(x[2], x[3], y[2], y[3])

\* c * x for a covariate value c (a natural number) and a double x
RECURSIVE Scale(_, _)
Scale(c, x) ==
    IF c = 0 THEN (IF IsFinite(x) THEN Ln(1, 1) ELSE NaN)
    ELSE IF c = 1 THEN x
    ELSE Plus(x, Scale(c - 1, x))

----------------------------------------------------------------------------
(* Doubles holding real-space values *)

RInf == <<"re+inf", 0, 1>>
RNaN == <<"re-nan", 0, 1>>
Re(n, d) ==
    LET q == Norm(n, d) IN <<"re", q[1], q[2]>>

\* exp(x)
Exp(x) ==
    CASE IsNaN(x) -> RNaN
      [] x = NegInf -> Re(0, 1)
      [] x = PosInf -> RInf
      [] OTHER -> <<"re", x[2], x[3]>>

\* log(r), r >= 0
Log(r) ==
    CASE r = RNaN -> NaN
      [] r = RInf -> PosInf
      [] r = Re(0, 1) -> NegInf
      [] OTHER -> <<"ln", r[2], r[3]>>

\* r + s on real-space doubles
RPlus(r, s) ==
    CASE r = RNaN \/ s = RNaN -> RNaN
      [] r = RInf \/ s = RInf -> RInf
      [] OTHER -> LET q == QAdd(r[2], r[3], s[2], s[3]) IN <<"re", q[1], q[2]>>

\* r / s on real-space doubles
RDiv(r, s) ==
    CASE r = RNaN \/ s = RNaN -> RNaN
      [] r = RInf /\ s = RInf -> RNaN
      [] r = RInf -> RInf
      [] s = RInf -> Re(0, 1)
      [] s = Re(0, 1) -> (IF r = Re(0, 1) THEN RNaN ELSE RInf)
      [] OTHER -> LET q == QMul(r[2], r[3], s[3], s[2]) IN <<"re", q[1], q[2]>>

----------------------------------------------------------------------------
(* Armadillo containers: a vec, mat or cube is its sizes and its elements, *)
(* indexed from 0                                                          *)

Vec(n, f) == [n_elem |-> n, at |-> [i \in 0..(n - 1) |-> f[i]]]

\* the uvec with the elements of the sequence s
UVec(s) == Vec(Len(s), [i \in 0..(Len(s) - 1) |-> s[i + 1]])

Mat(nr, nc, f) ==
    [n_rows |-> nr, n_cols |-> nc,
     at |-> [ij \in (0..(nr - 1)) \X (0..(nc - 1)) |-> f[ij]]]

Cube(nr, nc, ns, f) ==
    [n_rows |-> nr, n_cols |-> nc, n_slices |-> ns,
     at |-> [ijs \in (0..(nr - 1)) \X (0..(nc - 1)) \X (0..(ns - 1)) |-> f[ijs]]]

\* the content of a double or an index that was allocated and never written
Unset == <<"unset", 0, 1>>
UnsetIndex == -1

\* m.col(j)
MatCol(m, j) == Vec(m.n_rows, [i \in 0..(m.n_rows - 1) |-> m.at[<<i, j>>]])

\* the matrix m with column j replaced by the vector v
WithCol(m, j, v) ==
    [m EXCEPT !.at = [ij \in DOMAIN m.at |-> IF ij[2] = j THEN v.at[ij[1]] ELSE m.at[ij]]]

\* a + b, element by element
VecPlus(a, b) == Vec(a.n_elem, [i \in 0..(a.n_elem - 1) |-> Plus(a.at[i], b.at[i])])

\* Armadillo's max over a vector: the scan starts from -inf at index 0 and
\* moves only to a strictly greater element; <<value, index>> after n elements
RECURSIVE MaxScan(_, _)
MaxScan(v, n) ==
    IF n = 0 THEN <<NegInf, 0>>
    ELSE LET best == MaxScan(v, n - 1)
         IN  IF Gt(v.at[n - 1], best[1]) THEN <<v.at[n - 1], n - 1>> ELSE best

\* the same scan with >= : the last of several equal maxima wins
RECURSIVE MaxScanLast(_, _)
MaxScanLast(v, n) ==
    IF n = 0 THEN <<NegInf, 0>>
    ELSE LET best == MaxScanLast(v, n - 1)
         IN  IF ~Gt(best[1], v.at[n - 1]) THEN <<v.at[n - 1], n - 1>> ELSE best

LastIndexMax(v) == MaxScanLast(v, v.n_elem)[2]

\* v.index_max(), and the index that v.max(index) stores
IndexMax(v) == MaxScan(v, v.n_elem)[2]

\* v.max()
MaxValue(v) == MaxScan(v, v.n_elem)[1]

----------------------------------------------------------------------------
(* The state: the arguments of the call, and the objects the call works on *)

VARIABLES
    fn,                \* the function that was called
    transition,        \* mat   S x S, transition(i, j) = log P(j | i)
    emission,          \* cube  S x V x C
    init,              \* vec   S
    obs,               \* cube  K x T x C (internalForward), C x T x K (viterbix)
    coef,              \* mat   P x M
    X,                 \* mat   K x P, the design matrix
    numberOfStates,    \* uvec  M, the number of states of each cluster
    alpha,             \* internalForward: the output cube S x T x K
    lweights,          \* viterbix: the mixture weights, M x K
    wpc,               \* viterbix: the position in lines 14-16
    delta,             \* viterbix: the delta of each iteration of the loop over k
    phi,               \* viterbix: the phi of each iteration of the loop over k
    q,                 \* viterbix: the paths, K x T
    logp,              \* viterbix: the log-probabilities, K
    pc,                \* the position of the loop body of each sequence k
    tt,                \* the time index t of the loop body of each sequence k
    fault              \* an element outside an object's bounds was addressed

inputs == <<fn, transition, emission, init, obs, coef, X, numberOfStates>>
vars == <<fn, transition, emission, init, obs, coef, X, numberOfStates,
          alpha, lweights, wpc, delta, phi, q, logp, pc, tt, fault>>

EmptyMat == Mat(0, 0, <<>>)

----------------------------------------------------------------------------
(* viterbix, lines 14-16: the mixture weights *)

\* the sum of f[0] .. f[n-1], accumulated from 0.0 upwards
RECURSIVE SumLog(_, _)
SumLog(f, n) ==
    IF n = 0 THEN Ln(1, 1) ELSE Plus(SumLog(f, n - 1), f[n - 1])

RECURSIVE SumReal(_, _)
SumReal(f, n) ==
    IF n = 0 THEN Re(0, 1) ELSE RPlus(SumReal(f, n - 1), f[n - 1])

\* X * coef
LinearPredictor(x, c) ==
    Mat(x.n_rows, c.n_cols,
        [km \in (0..(x.n_rows - 1)) \X (0..(c.n_cols - 1)) |->
            SumLog([j \in 0..(x.n_cols - 1) |->
                       Scale(x.at[<<km[1], j>>], c.at[<<j, km[2]>>])], x.n_cols)])

\* exp(m).t()
ExpTransposed(m) ==
    Mat(m.n_cols, m.n_rows,
        [ij \in (0..(m.n_cols - 1)) \X (0..(m.n_rows - 1)) |-> Exp(m.at[<<ij[2], ij[1]>>])])

\* sum(m, 1): the sum of each row, one entry per row
RowSums(m) ==
    Vec(m.n_rows, [i \in 0..(m.n_rows - 1) |->
        SumReal([j \in 0..(m.n_cols - 1) |-> m.at[<<i, j>>]], m.n_cols)])

\* sum(m, 0): the sum of each column, one entry per column
ColSums(m) ==
    Vec(m.n_cols, [j \in 0..(m.n_cols - 1) |->
        SumReal([i \in 0..(m.n_rows - 1) |-> m.at[<<i, j>>]], m.n_rows)])

\* m.each_col() /= sum(m, 1): every entry divided by the sum of its row
EachColDivide(m) ==
    LET s == RowSums(m)
    IN  [m EXCEPT !.at = [ij \in DOMAIN m.at |-> RDiv(m.at[ij], s.at[ij[1]])]]

\* m.each_row() /= sum(m, 0): every entry divided by the sum of its column
EachRowDivide(m) ==
    LET s == ColSums(m)
    IN  [m EXCEPT !.at = [ij \in DOMAIN m.at |-> RDiv(m.at[ij], s.at[ij[2]])]]

\* log(m)
LogMat(m) == [m EXCEPT !.at = [ij \in DOMAIN m.at |-> Log(m.at[ij])]]

ViterbiWeightsExp ==
    /\ fn = "viterbix"
    /\ wpc = "exp"
    /\ lweights' = ExpTransposed(LinearPredictor(X, coef))
    /\ wpc' = "divide"
    /\ UNCHANGED <<inputs, alpha, delta, phi, q, logp, pc, tt, fault>>

ViterbiWeightsDivide ==
    /\ fn = "viterbix"
    /\ wpc = "divide"
    /\ lweights' = EachRowDivide(lweights)
    /\ wpc' = "log"
    /\ UNCHANGED <<inputs, alpha, delta, phi, q, logp, pc, tt, fault>>

ViterbiWeightsLog ==
    /\ fn = "viterbix"
    /\ wpc = "log"
    /\ lweights' = LogMat(lweights)
    /\ wpc' = "loop"
    /\ UNCHANGED <<inputs, alpha, delta, phi, q, logp, pc, tt, fault>>

----------------------------------------------------------------------------
(* viterbix, lines 18-45: the loop body of sequence k *)

\* y(0) + ... + y(c-1)
RECURSIVE PrefixSum(_, _)
PrefixSum(y, c) ==
    IF c = 0 THEN 0 ELSE PrefixSum(y, c - 1) + y.at[c - 1]

\* reparma(x, y): x(c) repeated y(c) times, for c = 0, 1, ...
Reparma(x, y) ==
    Vec(PrefixSum(y, y.n_elem),
        [j \in 0..(PrefixSum(y, y.n_elem) - 1) |->
            x.at[CHOOSE c \in 0..(y.n_elem - 1) :
                    PrefixSum(y, c) <= j /\ j < PrefixSum(y, c + 1)]])

\* the scratch objects delta and phi that the loop body of sequence k works on:
\* they are declared inside the body, one pair per iteration
SharedScratch(k) == 0
Scratch(k) == k

\* emission.slice(r).col(v)
EmissionCol(r, v) ==
    Vec(emission.n_rows, [j \in 0..(emission.n_rows - 1) |-> emission.at[<<j, v, r>>]])

\* lines 23-25: v += emission.slice(r).col(obs(r, 0, k)) for r = 0 .. n-1
RECURSIVE PlusEmissionCols(_, _, _)
PlusEmissionCols(v, k, n) ==
    IF n = 0 THEN v
    ELSE VecPlus(PlusEmissionCols(v, k, n - 1), EmissionCol(n - 1, obs.at[<<n - 1, 0, k>>]))

\* lines 22-25 with the weights left out
FirstColumnUnweighted(k) ==
    PlusEmissionCols(init, k, emission.n_slices)

\* lines 22-25: delta.col(0)
FirstColumn(k) ==
    PlusEmissionCols(VecPlus(init, Reparma(MatCol(lweights, k), numberOfStates)),
                     k, emission.n_slices)

\* lines 33-35: x += emission(j, obs(r, t, k), r) for r = 0 .. n-1
RECURSIVE PlusEmissions(_, _, _, _, _)
PlusEmissions(x, j, t, k, n) ==
    IF n = 0 THEN x
    ELSE Plus(PlusEmissions(x, j, t, k, n - 1), emission.at[<<j, obs.at[<<n - 1, t, k>>], n - 1>>])

\* the best predecessor by delta alone, the transition left out
PredecessorGreedy(d, t, j) ==
    IndexMax(MatCol(d, t - 1))

\* line 31: the index stored in phi(j, t)
Predecessor(d, t, j) ==
    IndexMax(VecPlus(MatCol(d, t - 1), MatCol(transition, j)))

\* lines 32-35: delta(j, t), given phi(j, t) = i
DeltaCell(d, i, j, t, k) ==
    PlusEmissions(Plus(d.at[<<i, t - 1>>], transition.at[<<i, j>>]), j, t, k,
                  emission.n_slices)

\* line 41 with t started one column too far
BacktrackStartOffByOne(n_cols) == n_cols - 1

\* line 41: int t = (obs.n_cols - 2).  The difference is formed in 32-bit
\* unsigned arithmetic and then converted to int; it is held here as two
\* 16-bit halves
HalfWord == 65536
BacktrackStart(n_cols) ==
    LET lo == ((n_cols % HalfWord) - 2) % HalfWord
        borrow == IF (n_cols % HalfWord) < 2 THEN 1 ELSE 0
        hi == ((n_cols \div HalfWord) - borrow) % HalfWord
    IN  IF hi >= HalfWord \div 2 THEN (hi - HalfWord) * HalfWord + lo
        ELSE hi * HalfWord + lo

\* line 42 reading the column of q(k, t + 1) itself
BackpointerSameColumn(p, s, t) == p.at[<<s, t>>]

\* line 42: phi(s, t + 1), where s = q(k, t + 1)
Backpointer(p, s, t) == p.at[<<s, t + 1>>]

ViterbiInit(k) ==
    /\ fn = "viterbix"
    /\ wpc = "loop"
    /\ pc[k] = "init"
    /\ delta' = [delta EXCEPT ![Scratch(k)] =
           WithCol(Mat(emission.n_rows, obs.n_cols,
                       [ij \in (0..(emission.n_rows - 1)) \X (0..(obs.n_cols - 1)) |-> Unset]),
                   0, FirstColumn(k))]
    /\ phi' = [phi EXCEPT ![Scratch(k)] =
           Mat(emission.n_rows, obs.n_cols,
               [ij \in (0..(emission.n_rows - 1)) \X (0..(obs.n_cols - 1)) |->
                   IF ij[2] = 0 THEN 0 ELSE UnsetIndex])]
    /\ tt' = [tt EXCEPT ![k] = 1]
    /\ pc' = [pc EXCEPT ![k] = "step"]
    /\ UNCHANGED <<inputs, alpha, lweights, wpc, q, logp, fault>>

ViterbiStep(k) ==
    /\ fn = "viterbix"
    /\ pc[k] = "step"
    /\ tt[k] < obs.n_cols
    /\ LET d == delta[Scratch(k)]
           t == tt[k]
           best == [j \in 0..(emission.n_rows - 1) |-> Predecessor(d, t, j)]
       IN  /\ phi' = [phi EXCEPT ![Scratch(k)] =
                  WithCol(@, t, Vec(emission.n_rows, best))]
           /\ delta' = [delta EXCEPT ![Scratch(k)] =
                  WithCol(@, t, Vec(emission.n_rows,
                      [j \in 0..(emission.n_rows - 1) |-> DeltaCell(d, best[j], j, t, k)]))]
    /\ tt' = [tt EXCEPT ![k] = @ + 1]
    /\ UNCHANGED <<inputs, alpha, lweights, wpc, q, logp, pc, fault>>

ViterbiLast(k) ==
    /\ fn = "viterbix"
    /\ pc[k] = "step"
    /\ tt[k] >= obs.n_cols
    /\ q' = [q EXCEPT !.at[<<k, obs.n_cols - 1>>] =
                IndexMax(MatCol(delta[Scratch(k)], obs.n_cols - 1))]
    /\ tt' = [tt EXCEPT ![k] = BacktrackStart(obs.n_cols)]
    /\ pc' = [pc EXCEPT ![k] = "back"]
    /\ UNCHANGED <<inputs, alpha, lweights, wpc, delta, phi, logp, fault>>

ViterbiBack(k) ==
    /\ fn = "viterbix"
    /\ pc[k] = "back"
    /\ tt[k] >= 0
    /\ IF tt[k] < obs.n_cols - 1 /\ q.at[<<k, tt[k] + 1>>] \in 0..(emission.n_rows - 1)
       THEN /\ q' = [q EXCEPT !.at[<<k, tt[k]>>] =
                        Backpointer(phi[Scratch(k)], q.at[<<k, tt[k] + 1>>], tt[k])]
            /\ tt' = [tt EXCEPT ![k] = @ - 1]
            /\ UNCHANGED <<pc, fault>>
       ELSE /\ fault' = TRUE
            /\ pc' = [pc EXCEPT ![k] = "fault"]
            /\ UNCHANGED <<q, tt>>
    /\ UNCHANGED <<inputs, alpha, lweights, wpc, delta, phi, logp>>

ViterbiLogp(k) ==
    /\ fn = "viterbix"
    /\ pc[k] = "back"
    /\ tt[k] < 0
    /\ logp' = [logp EXCEPT !.at[k] = MaxValue(MatCol(delta[Scratch(k)], obs.n_cols - 1))]
    /\ pc' = [pc EXCEPT ![k] = "done"]
    /\ UNCHANGED <<inputs, alpha, lweights, wpc, delta, phi, q, tt, fault>>

----------------------------------------------------------------------------
(* internalForward *)

\* logSumExp(x): with m the maximum of x, m + log(sum_i exp(x(i) - m))
LogSumExp(x) ==
    LET m == MaxValue(x)
    IN  Plus(m, Log(SumReal([i \in 0..(x.n_elem - 1) |-> Exp(Minus(x.at[i], m))], x.n_elem)))

\* alpha.slice(k).col(t)
AlphaCol(a, k, t) ==
    Vec(a.n_rows, [i \in 0..(a.n_rows - 1) |-> a.at[<<i, t, k>>]])

\* lines 11-13 and 18-20: x += emission(i, obs(k, t, r), r) for r = 0 .. n-1
RECURSIVE ForwardPlusEmissions(_, _, _, _, _)
ForwardPlusEmissions(x, i, t, k, n) ==
    IF n = 0 THEN x
    ELSE Plus(ForwardPlusEmissions(x, i, t, k, n - 1),
              emission.at[<<i, obs.at[<<k, t, n - 1>>], n - 1>>])

\* lines 17-20: alpha(i, t, k)
AlphaCell(a, i, t, k) ==
    ForwardPlusEmissions(
        LogSumExp(VecPlus(AlphaCol(a, k, t - 1), MatCol(transition, i))),
        i, t, k, obs.n_slices)

\* lines 9-14
ForwardInit(k) ==
    /\ fn = "internalForward"
    /\ pc[k] = "init"
    /\ alpha' = [alpha EXCEPT !.at = [ijs \in DOMAIN alpha.at |->
           IF ijs[2] = 0 /\ ijs[3] = k /\ ijs[1] < emission.n_rows
           THEN ForwardPlusEmissions(init.at[ijs[1]], ijs[1], 0, k, obs.n_slices)
           ELSE alpha.at[ijs]]]
    /\ tt' = [tt EXCEPT ![k] = 1]
    /\ pc' = [pc EXCEPT ![k] = "step"]
    /\ UNCHANGED <<inputs, lweights, wpc, delta, phi, q, logp, fault>>

\* lines 15-22, one value of t
ForwardStep(k) ==
    /\ fn = "internalForward"
    /\ pc[k] = "step"
    /\ tt[k] < obs.n_cols
    /\ alpha' = [alpha EXCEPT !.at = [ijs \in DOMAIN alpha.at |->
           IF ijs[2] = tt[k] /\ ijs[3] = k /\ ijs[1] < transition.n_rows
           THEN AlphaCell(alpha, ijs[1], tt[k], k)
           ELSE alpha.at[ijs]]]
    /\ tt' = [tt EXCEPT ![k] = @ + 1]
    /\ UNCHANGED <<inputs, lweights, wpc, delta, phi, q, logp, pc, fault>>

\* line 15: the loop over t ends
ForwardLast(k) ==
    /\ fn = "internalForward"
    /\ pc[k] = "step"
    /\ tt[k] >= obs.n_cols
    /\ pc' = [pc EXCEPT ![k] = "done"]
    /\ UNCHANGED <<inputs, alpha, lweights, wpc, delta, phi, q, logp, tt, fault>>

----------------------------------------------------------------------------
(* The loops over k *)

\* the loop over k reaches sequence k when the bodies before it have ended
Turn(k) == \A k2 \in 0..(k - 1) : pc[k2] = "done"

ForwardBody(k) == ForwardInit(k) \/ ForwardStep(k) \/ ForwardLast(k)

ViterbiBody(k) ==
    ViterbiInit(k) \/ ViterbiStep(k) \/ ViterbiLast(k) \/ ViterbiBack(k) \/ ViterbiLogp(k)

ViterbiWeights == ViterbiWeightsExp \/ ViterbiWeightsDivide \/ ViterbiWeightsLog

\* internalForward, lines 8-23
NextForward == \E k \in DOMAIN pc : Turn(k) /\ ForwardBody(k)

\* viterbix, lines 14-45
NextViterbi == ViterbiWeights \/ \E k \in DOMAIN pc : Turn(k) /\ ViterbiBody(k)

Next == NextForward \/ NextViterbi

\* one task per sequence, the tasks taking their steps in any order
NextTasks ==
    \/ ViterbiWeights
    \/ \E k \in DOMAIN pc : ForwardBody(k) \/ ViterbiBody(k)

----------------------------------------------------------------------------
(* The calls examined *)

\* the longest sequence, the largest batch, and the largest number of
\* observed symbols of one call (sequences x time steps x channels)
MaxT == 3
NumSeq == 2
MaxCells == 4

\* the states and the symbols of the models, and the probabilities their
\* parameters are drawn from
States == {0, 1}
Symbols == {0, 1}
Probs == {<<0, 1>>, <<1, 2>>, <<1, 1>>}

S == Cardinality(States)
V == Cardinality(Symbols)

\* the logarithm of the probability p = <<n, d>>
LogOf(p) == IF p[1] = 0 THEN NegInf ELSE Ln(p[1], p[2])

\* the probability distributions over 0 .. n-1 with entries in Probs
Distributions(n) ==
    {f \in [0..(n - 1) -> Probs] :
        SumReal([i \in 0..(n - 1) |-> Re(f[i][1], f[i][2])], n) = Re(1, 1)}

\* the row-stochastic transition matrices, in log space
TransitionMatrices(s) ==
    {Mat(s, s, [ij \in (0..(s - 1)) \X (0..(s - 1)) |-> LogOf(rows[ij[1]][ij[2]])]) :
        rows \in [0..(s - 1) -> Distributions(s)]}

\* the emission models with c channels: one distribution per state and channel
EmissionCubes(s, c) ==
    {Cube(s, V, c, [jvr \in (0..(s - 1)) \X (0..(V - 1)) \X (0..(c - 1)) |->
                       LogOf(rows[<<jvr[1], jvr[3]>>][jvr[2]])]) :
        rows \in [(0..(s - 1)) \X (0..(c - 1)) -> Distributions(V)]}

InitialVectors(s) ==
    {Vec(s, [i \in 0..(s - 1) |-> LogOf(d[i])]) : d \in Distributions(s)}

\* the batches of k sequences of t steps, each over c channels
Shapes(c) ==
    {kt \in (1..NumSeq) \X (1..MaxT) : kt[1] * kt[2] * c <= MaxCells}

\* internalForward is handed obs(k, t, r), viterbix obs(r, t, k)
ForwardObservations(k, t, c) ==
    {Cube(k, t, c, f) : f \in [(0..(k - 1)) \X (0..(t - 1)) \X (0..(c - 1)) -> Symbols]}

ViterbiObservations(k, t, c) ==
    {Cube(c, t, k, f) : f \in [(0..(c - 1)) \X (0..(t - 1)) \X (0..(k - 1)) -> Symbols]}

\* one cluster that holds every state, and the design matrix of k sequences
\* that has the intercept alone: every log-weight is 0
OneCluster == UVec(<<S>>)
OneCoef == Mat(1, 1, [ij \in {<<0, 0>>} |-> Ln(1, 1)])
Intercept(k) == Mat(k, 1, [ij \in (0..(k - 1)) \X {0} |-> 1])

\* the state at the call of internalForward: alpha is allocated by the caller
\* and holds nothing yet
CallForward(trs, ems, ins, obss) ==
    /\ fn = "internalForward"
    /\ transition \in trs
    /\ emission \in ems
    /\ init \in ins
    /\ obs \in obss
    /\ coef = EmptyMat /\ X = EmptyMat /\ numberOfStates = Vec(0, <<>>)
    /\ alpha = Cube(emission.n_rows, obs.n_cols, obs.n_rows,
                    [ijs \in (0..(emission.n_rows - 1)) \X (0..(obs.n_cols - 1))
                             \X (0..(obs.n_rows - 1)) |-> Unset])
    /\ lweights = EmptyMat /\ wpc = "none"
    /\ delta = <<>> /\ phi = <<>>
    /\ q = EmptyMat /\ logp = Vec(0, <<>>)
    /\ pc = [k \in 0..(obs.n_rows - 1) |-> "init"]
    /\ tt = [k \in 0..(obs.n_rows - 1) |-> 0]
    /\ fault = FALSE

\* the state of viterbix after lines 10-11: q and logp are allocated
CallViterbi(trs, ems, ins, obss, coefs, xs, nos) ==
    /\ fn = "viterbix"
    /\ transition \in trs
    /\ emission \in ems
    /\ init \in ins
    /\ obs \in obss
    /\ coef \in coefs /\ X \in xs /\ numberOfStates \in nos
    /\ alpha = Cube(0, 0, 0, <<>>)
    /\ lweights = EmptyMat /\ wpc = "exp"
    /\ delta = [k \in 0..(obs.n_slices - 1) |-> EmptyMat]
    /\ phi = [k \in 0..(obs.n_slices - 1) |-> EmptyMat]
    /\ q = Mat(obs.n_slices, obs.n_cols,
               [ij \in (0..(obs.n_slices - 1)) \X (0..(obs.n_cols - 1)) |-> UnsetIndex])
    /\ logp = Vec(obs.n_slices, [k \in 0..(obs.n_slices - 1) |-> Unset])
    /\ pc = [k \in 0..(obs.n_slices - 1) |-> "init"]
    /\ tt = [k \in 0..(obs.n_slices - 1) |-> 0]
    /\ fault = FALSE

\* a uniform model of s states
UniformTransition(s) ==
    Mat(s, s, [ij \in (0..(s - 1)) \X (0..(s - 1)) |-> Ln(1, s)])
UniformInit(s) == Vec(s, [i \in 0..(s - 1) |-> Ln(1, s)])

\* calls of internalForward on well-formed models: one channel with every
\* parameter free, and two channels with the initial distribution uniform
InitForward ==
    \/ \E kt \in Shapes(1) :
          CallForward(TransitionMatrices(S), EmissionCubes(S, 1), InitialVectors(S),
                      ForwardObservations(kt[1], kt[2], 1))
    \/ \E kt \in Shapes(2) :
          CallForward(TransitionMatrices(S), EmissionCubes(S, 2), {UniformInit(S)},
                      ForwardObservations(kt[1], kt[2], 2))

\* calls of viterbix with a single cluster, on the same models
InitViterbi ==
    \/ \E kt \in Shapes(1) :
          CallViterbi(TransitionMatrices(S), EmissionCubes(S, 1), InitialVectors(S),
                      ViterbiObservations(kt[1], kt[2], 1),
                      {OneCoef}, {Intercept(kt[1])}, {OneCluster})
    \/ \E kt \in Shapes(2) :
          CallViterbi(TransitionMatrices(S), EmissionCubes(S, 2), {UniformInit(S)},
                      ViterbiObservations(kt[1], kt[2], 2),
                      {OneCoef}, {Intercept(kt[1])}, {OneCluster})

\* mixture models: three states in two clusters, or in one
MixtureStates == {0, 1, 2}
S3 == Cardinality(MixtureStates)
ClusterSizes == {UVec(<<1, 2>>), UVec(<<2, 1>>), UVec(<<S3>>)}
TwoClusters == {y \in ClusterSizes : y.n_elem = 2}

\* the coefficients, ln 1 = 0, ln 2 and ln(1/3), and the covariate values
CoefValues == {Ln(1, 1), Ln(2, 1), Ln(1, 3)}
Covariates == {0, 1, 2}

\* coef: one row for the intercept and one for the covariate, a column per cluster
CoefMatrices(m) ==
    {Mat(2, m, f) : f \in [(0..1) \X (0..(m - 1)) -> CoefValues]}

\* X: a row per sequence, the intercept 1 and the value of the covariate
DesignMatrices(k) ==
    {Mat(k, 2, [ij \in (0..(k - 1)) \X (0..1) |-> IF ij[2] = 0 THEN 1 ELSE x[ij[1]]]) :
        x \in [0..(k - 1) -> Covariates]}

\* the covariate of sequence k is k, and the cluster after the first has
\* the coefficients ln 2 and ln(1/3)
CountingDesign(k) ==
    Mat(k, 2, [ij \in (0..(k - 1)) \X (0..1) |-> IF ij[2] = 0 THEN 1 ELSE ij[1]])
SlopedCoef ==
    Mat(2, 2, [ij \in (0..1) \X (0..1) |->
        IF ij[2] = 0 THEN Ln(1, 1) ELSE IF ij[1] = 0 THEN Ln(2, 1) ELSE Ln(1, 3)])

\* calls of viterbix on mixtures: every coef and X on one model; every model
\* of three states under weights that differ between clusters and sequences;
\* and every two-channel model of two states in two clusters
InitMixture ==
    \/ \E y \in ClusterSizes :
          CallViterbi({UniformTransition(S3)}, {CHOOSE e \in EmissionCubes(S3, 1) : TRUE},
                      {UniformInit(S3)},
                      {Cube(1, 1, NumSeq, [rtk \in {0} \X {0} \X (0..(NumSeq - 1)) |-> 0])},
                      CoefMatrices(y.n_elem), DesignMatrices(NumSeq), {y})
    \/ \E kt \in {<<NumSeq, 1>>, <<1, 2>>} :
          CallViterbi({UniformTransition(S3)}, EmissionCubes(S3, 1), InitialVectors(S3),
                      ViterbiObservations(kt[1], kt[2], 1),
                      {SlopedCoef}, {CountingDesign(kt[1])}, TwoClusters)
    \/ CallViterbi({UniformTransition(S)}, EmissionCubes(S, 2), InitialVectors(S),
                   ViterbiObservations(NumSeq, 1, 2),
                   {SlopedCoef}, {CountingDesign(NumSeq)}, {UVec(<<1, 1>>)})

\* calls for one task per sequence: batches of two sequences and more
InitTasks ==
    \E kt \in {x \in Shapes(1) : x[1] >= 2} :
        \/ CallForward(TransitionMatrices(S), EmissionCubes(S, 1), {UniformInit(S)},
                       ForwardObservations(kt[1], kt[2], 1))
        \/ CallViterbi(TransitionMatrices(S), EmissionCubes(S, 1), {UniformInit(S)},
                       ViterbiObservations(kt[1], kt[2], 1),
                       {SlopedCoef}, {CountingDesign(kt[1])}, {UVec(<<1, 1>>)})

\* calls that break a precondition: the model has no channel at all
InitNoChannel ==
    \E kt \in Shapes(1) :
        \/ CallForward(TransitionMatrices(S), EmissionCubes(S, 0), InitialVectors(S),
                       ForwardObservations(kt[1], kt[2], 0))
        \/ CallViterbi(TransitionMatrices(S), EmissionCubes(S, 0), InitialVectors(S),
                       ViterbiObservations(kt[1], kt[2], 0),
                       {OneCoef}, {Intercept(kt[1])}, {OneCluster})

SpecForward == InitForward /\ [][NextForward]_vars
SpecViterbi == InitViterbi /\ [][NextViterbi]_vars
SpecMixture == InitMixture /\ [][NextViterbi]_vars
SpecTasks == InitTasks /\ [][NextTasks]_vars
SpecNoChannel == InitNoChannel /\ [][Next]_vars

----------------------------------------------------------------------------
(* Properties of viterbix *)

\* the sequences whose loop body has ended
Finished == {k \in DOMAIN pc : pc[k] = "done"}

\* the sequences whose first column of delta is written
Started == {k \in DOMAIN pc : pc[k] \in {"step", "back", "done"}}

\* the cluster of state j: the clusters that end at or before j come first
ClusterIndex(j) ==
    Cardinality({c \in 0..(numberOfStates.n_elem - 1) :
                    PrefixSum(numberOfStates, c + 1) <= j})

\* sum over the channels r of emission(j, obs(r, t, k), r)
ChannelSum(j, t, k) ==
    SumLog([r \in 0..(emission.n_slices - 1) |-> emission.at[<<j, obs.at[<<r, t, k>>], r>>]],
           emission.n_slices)

\* the joint log-probability of the states path[0..t] and the observations
\* 0..t of sequence k, the initial state weighted by its cluster
RECURSIVE JointLogProb(_, _, _)
JointLogProb(path, k, t) ==
    IF t = 0
    THEN Plus(Plus(init.at[path[0]], lweights.at[<<ClusterIndex(path[0]), k>>]),
              ChannelSum(path[0], 0, k))
    ELSE Plus(Plus(JointLogProb(path, k, t - 1), transition.at[<<path[t - 1], path[t]>>]),
              ChannelSum(path[t], t, k))

AllPaths == [0..(obs.n_cols - 1) -> 0..(emission.n_rows - 1)]

\* the path returned for sequence k
QPath(k) == [t \in 0..(obs.n_cols - 1) |-> q.at[<<k, t>>]]

\* i is a lowest-indexed maximiser of the vector v
LowestMaximiser(v, i) ==
    /\ i \in 0..(v.n_elem - 1)
    /\ \A i2 \in 0..(v.n_elem - 1) : ~Gt(v.at[i2], v.at[i])
    /\ \A i2 \in 0..(i - 1) : Gt(v.at[i], v.at[i2])

\* the candidates delta(i, t-1) + transition(i, j) of cell (j, t) of sequence k
Candidates(k, j, t) ==
    Vec(emission.n_rows, [i \in 0..(emission.n_rows - 1) |->
        Plus(delta[k].at[<<i, t - 1>>], transition.at[<<i, j>>])])

\* the columns t >= 1 of delta and phi of sequence k that are written
WrittenColumns(k) ==
    IF pc[k] = "step" THEN 1..(tt[k] - 1)
    ELSE IF pc[k] \in {"back", "done"} THEN 1..(obs.n_cols - 1)
    ELSE {}

\* C1: the path returned for a sequence is a global optimum: no state path
\* has a greater joint log-probability with the sequence's observations
C1_ViterbiOptimal ==
    \A k \in Finished :
        /\ QPath(k) \in AllPaths
        /\ \A path \in AllPaths :
              ~Gt(JointLogProb(path, k, obs.n_cols - 1),
                  JointLogProb(QPath(k), k, obs.n_cols - 1))

C1_Witness ==
    \E k \in Finished :
        /\ obs.n_cols >= 3
        /\ \E path \in AllPaths :
              /\ IsFinite(JointLogProb(path, k, obs.n_cols - 1))
              /\ Gt(JointLogProb(QPath(k), k, obs.n_cols - 1),
                    JointLogProb(path, k, obs.n_cols - 1))
              /\ path[0] = IndexMax(MatCol(delta[k], 0))
              /\ QPath(k)[0] # path[0]

\* C3: every argmax resolves ties to the lowest index: phi(j, t) is the
\* smallest maximiser of delta(i, t-1) + transition(i, j), and the last state
\* of the path is the smallest maximiser of delta(j, T-1)
C3_TiesToLowestIndex ==
    /\ \A k \in DOMAIN pc : \A t \in WrittenColumns(k) : \A j \in 0..(emission.n_rows - 1) :
          LowestMaximiser(Candidates(k, j, t), phi[k].at[<<j, t>>])
    /\ \A k \in DOMAIN pc : pc[k] \in {"back", "done"} =>
          LowestMaximiser(MatCol(delta[k], obs.n_cols - 1), q.at[<<k, obs.n_cols - 1>>])

C3_Witness ==
    \E k \in Finished : \E t \in WrittenColumns(k) : \E j \in 0..(emission.n_rows - 1) :
        /\ phi[k].at[<<j, t>>] = 0
        /\ IsFinite(Candidates(k, j, t).at[0])
        /\ Candidates(k, j, t).at[1] = Candidates(k, j, t).at[0]
        /\ q.at[<<k, obs.n_cols - 1>>] = 0
        /\ IsFinite(delta[k].at[<<0, obs.n_cols - 1>>])
        /\ delta[k].at[<<1, obs.n_cols - 1>>] = delta[k].at[<<0, obs.n_cols - 1>>]

\* C7: logp(k) is the joint log-probability of the returned path itself;
\* the path follows the backpointers, q(k, t) = phi(q(k, t+1), t+1), and
\* ends in a state that attains the maximum of delta(:, T-1)
C7_LogpIsPathLogProb ==
    \A k \in Finished :
        /\ QPath(k) \in AllPaths
        /\ logp.at[k] = JointLogProb(QPath(k), k, obs.n_cols - 1)
        /\ \A t \in 0..(obs.n_cols - 2) :
              q.at[<<k, t>>] = phi[k].at[<<q.at[<<k, t + 1>>], t + 1>>]
        /\ \A j \in 0..(emission.n_rows - 1) :
              ~Gt(delta[k].at[<<j, obs.n_cols - 1>>],
                  delta[k].at[<<q.at[<<k, obs.n_cols - 1>>], obs.n_cols - 1>>])

C7_Witness ==
    \E k \in Finished :
        /\ obs.n_cols >= 3
        /\ IsFinite(logp.at[k])
        /\ \E t \in 0..(obs.n_cols - 2) : q.at[<<k, t>>] # q.at[<<k, t + 1>>]
        /\ \E t \in 1..(obs.n_cols - 1) :
              phi[k].at[<<0, t>>] # phi[k].at[<<1, t>>]

\* C10: a sequence of length 1 is not backtracked: the loop of line 41
\* starts below 0, its body never runs, nothing outside the bounds of phi or
\* q is addressed, and the result is the lowest maximiser of delta(:, 0)
\* with its value
C10_LengthOne ==
    obs.n_cols = 1 =>
        /\ ~fault
        /\ \A k \in DOMAIN pc :
              /\ pc[k] # "fault"
              /\ pc[k] = "back" => tt[k] < 0
              /\ pc[k] = "done" =>
                    /\ LowestMaximiser(MatCol(delta[k], 0), q.at[<<k, 0>>])
                    /\ logp.at[k] = delta[k].at[<<q.at[<<k, 0>>], 0>>]

C10_Witness ==
    /\ obs.n_cols = 1
    /\ \E k \in Finished :
          /\ q.at[<<k, 0>>] = 1
          /\ IsFinite(logp.at[k])

C9_FirstColumn ==
    \A k \in Started : \A j \in 0..(emission.n_rows - 1) :
        /\ delta[k].at[<<j, 0>>] =
              Plus(Plus(init.at[j], lweights.at[<<ClusterIndex(j), k>>]), ChannelSum(j, 0, k))
        /\ phi[k].at[<<j, 0>>] = 0

C9_Witness ==
    \E k \in Started :
        /\ k >= 1
        /\ numberOfStates.n_elem = 2
        /\ numberOfStates.at[0] = 2
        /\ lweights.at[<<0, k>>] # lweights.at[<<1, k>>]
        /\ lweights.at[<<0, k>>] # lweights.at[<<0, 0>>]
        /\ IsFinite(delta[k].at[<<1, 0>>])
        /\ IsFinite(delta[k].at[<<2, 0>>])
        /\ init.at[1] = init.at[2]
        /\ ChannelSum(1, 0, k) = ChannelSum(2, 0, k)
        /\ delta[k].at[<<1, 0>>] # delta[k].at[<<2, 0>>]

\* C9 on two channels
C9_WitnessTwoChannels ==
    \E k \in Started :
        /\ emission.n_slices = 2
        /\ \E j \in 0..(emission.n_rows - 1) :
              /\ IsFinite(delta[k].at[<<j, 0>>])
              /\ emission.at[<<j, obs.at[<<0, 0, k>>], 0>>] # Ln(1, 1)
              /\ emission.at[<<j, obs.at[<<1, 0, k>>], 1>>] # Ln(1, 1)

----------------------------------------------------------------------------
(* One sequence on its own: the recursions as functions of the model and   *)
(* of the observations of sequence k alone                                 *)

RECURSIVE RefDelta(_, _)
RefDelta(k, t) ==
    IF t = 0
    THEN Vec(emission.n_rows, [j \in 0..(emission.n_rows - 1) |->
             Plus(Plus(init.at[j], lweights.at[<<ClusterIndex(j), k>>]), ChannelSum(j, 0, k))])
    ELSE LET prev == RefDelta(k, t - 1)
         IN  Vec(emission.n_rows, [j \in 0..(emission.n_rows - 1) |->
                 Plus(MaxValue(VecPlus(prev, MatCol(transition, j))), ChannelSum(j, t, k))])

RefPhi(k, t, j) == IndexMax(VecPlus(RefDelta(k, t - 1), MatCol(transition, j)))

RECURSIVE RefState(_, _)
RefState(k, t) ==
    IF t = obs.n_cols - 1 THEN IndexMax(RefDelta(k, t))
    ELSE RefPhi(k, t + 1, RefState(k, t + 1))

\* sum over the channels r of emission(i, obs(k, t, r), r), obs as
\* internalForward is handed it
ForwardChannelSum(i, t, k) ==
    SumLog([r \in 0..(emission.n_slices - 1) |-> emission.at[<<i, obs.at[<<k, t, r>>], r>>]],
           emission.n_slices)

RECURSIVE RefAlpha(_, _)
RefAlpha(k, t) ==
    IF t = 0
    THEN Vec(emission.n_rows, [i \in 0..(emission.n_rows - 1) |->
             Plus(init.at[i], ForwardChannelSum(i, 0, k))])
    ELSE LET prev == RefAlpha(k, t - 1)
         IN  Vec(emission.n_rows, [i \in 0..(emission.n_rows - 1) |->
                 Plus(LogSumExp(VecPlus(prev, MatCol(transition, i))),
                      ForwardChannelSum(i, t, k))])

\* what belongs to sequence k: its scratch tables and its part of the outputs
Owned(k) ==
    IF fn = "viterbix"
    THEN <<delta[k], phi[k], QPath(k), logp.at[k]>>
    ELSE <<[it \in (0..(alpha.n_rows - 1)) \X (0..(alpha.n_cols - 1)) |->
              alpha.at[<<it[1], it[2], k>>]]>>

\* the outputs of every finished sequence are those of the sequence on its own
OutputsOfSequenceAlone ==
    \A k \in Finished :
        IF fn = "viterbix"
        THEN /\ QPath(k) = [t \in 0..(obs.n_cols - 1) |-> RefState(k, t)]
             /\ logp.at[k] = MaxValue(RefDelta(k, obs.n_cols - 1))
        ELSE \A t \in 0..(obs.n_cols - 1) : AlphaCol(alpha, k, t) = RefAlpha(k, t)

\* a step leaves alone what belongs to the sequences that did not take it
StepKeepsOthers ==
    \A k \in DOMAIN pc :
        (pc'[k] = pc[k] /\ tt'[k] = tt[k]) => Owned(k)' = Owned(k)

\* C4: the sequences have no data dependency: with one task per sequence
\* and the tasks interleaved in any order, a step of one task changes
\* nothing that belongs to another sequence, and every finished sequence has
\* the outputs it has when it is computed on its own
C4_SequencesIndependent ==
    [](OutputsOfSequenceAlone) /\ [][StepKeepsOthers]_vars

C4_Witness ==
    \E k1, k2 \in DOMAIN pc :
        /\ k1 < k2
        /\ pc[k2] = "done"
        /\ pc[k1] = "step"
        /\ tt[k1] = obs.n_cols
        /\ obs.n_cols >= 2
        /\ Owned(k1) # Owned(k2)

----------------------------------------------------------------------------
(* internalForward: total mass and degenerate probabilities *)

\* the columns of alpha(:, :, k) that are written
AlphaColumns(k) ==
    IF pc[k] = "step" THEN 0..(tt[k] - 1)
    ELSE IF pc[k] = "done" THEN 0..(obs.n_cols - 1)
    ELSE {}

\* the joint log-probability of the states path[0..t] and the observations
\* 0..t of sequence k under the plain model
RECURSIVE ForwardJointLogProb(_, _, _)
ForwardJointLogProb(path, k, t) ==
    IF t = 0
    THEN Plus(init.at[path[0]], ForwardChannelSum(path[0], 0, k))
    ELSE Plus(Plus(ForwardJointLogProb(path, k, t - 1),
                   transition.at[<<path[t - 1], path[t]>>]),
              ForwardChannelSum(path[t], t, k))

\* the probability of the observations of sequence k together with a state
\* path, summed over the paths of the set
RECURSIVE MassOfPaths(_, _)
MassOfPaths(paths, k) ==
    IF paths = {} THEN Re(0, 1)
    ELSE LET path == CHOOSE x \in paths : TRUE
         IN  RPlus(Exp(ForwardJointLogProb(path, k, obs.n_cols - 1)),
                   MassOfPaths(paths \ {path}, k))

\* the probability of the observations of sequence k, summed path by path
PathMass(k) == MassOfPaths(AllPaths, k)

\* the mass of the last column of alpha(:, :, k), in real space
LastColumnMass(k) ==
    SumReal([i \in 0..(alpha.n_rows - 1) |-> Exp(alpha.at[<<i, obs.n_cols - 1, k>>])],
            alpha.n_rows)

\* C2: for every sequence, the log-sum-exp of the last column of alpha is
\* the log of the total probability of the observations over all state paths
\* (in real space: the last column sums to that probability)
C2_TotalMass ==
    \A k \in Finished :
        /\ LogSumExp(AlphaCol(alpha, k, obs.n_cols - 1)) = Log(PathMass(k))
        /\ LastColumnMass(k) = PathMass(k)

\* every term alpha(j, t-1, k) + transition(j, i) of cell (i, t) is -inf: state
\* i is reached at time t through transitions of probability 0 only
OnlyThroughNegInf(k, i, t) ==
    /\ \A j \in 0..(transition.n_rows - 1) :
          alpha.at[<<j, t - 1, k>>] = NegInf \/ transition.at[<<j, i>>] = NegInf
    /\ \E j \in 0..(transition.n_rows - 1) :
          alpha.at[<<j, t - 1, k>>] # NegInf /\ transition.at[<<j, i>>] = NegInf

\* C5: a transition of log-probability -inf gives -inf to the states that
\* are reached through it alone, and no cell of alpha is NaN
C5_NegInfPropagates ==
    \A k \in DOMAIN pc : \A t \in AlphaColumns(k) : \A i \in 0..(alpha.n_rows - 1) :
        /\ ~IsNaN(alpha.at[<<i, t, k>>])
        /\ (t >= 1 /\ OnlyThroughNegInf(k, i, t)) => alpha.at[<<i, t, k>>] = NegInf

\* the half of C5 that speaks of viterbix: delta is -inf where every term
\* delta(i, t-1) + transition(i, j) is, and no cell of delta is NaN
DeltaNegInfPropagates ==
    \A k \in DOMAIN pc : \A t \in WrittenColumns(k) : \A j \in 0..(emission.n_rows - 1) :
        /\ ~IsNaN(delta[k].at[<<j, t>>])
        /\ (\A i \in 0..(emission.n_rows - 1) : Candidates(k, j, t).at[i] = NegInf)
              => delta[k].at[<<j, t>>] = NegInf

DeltaNegInfWitness ==
    \E k \in Finished : \E t \in WrittenColumns(k) : \E j \in 0..(emission.n_rows - 1) :
        /\ \A i \in 0..(emission.n_rows - 1) : Candidates(k, j, t).at[i] = NegInf
        /\ \E i \in 0..(emission.n_rows - 1) : IsFinite(delta[k].at[<<i, t - 1>>])
        /\ \E j2 \in 0..(emission.n_rows - 1) : IsFinite(delta[k].at[<<j2, t>>])

\* the total mass where logSumExp never meets a vector of -inf alone
TotalMassWithoutNaN ==
    \A k \in Finished :
        (\A t \in 0..(obs.n_cols - 1) : \A i \in 0..(alpha.n_rows - 1) :
            ~IsNaN(alpha.at[<<i, t, k>>]))
        => LastColumnMass(k) = PathMass(k)

----------------------------------------------------------------------------
(* Preconditions *)

\* the sizes of the arguments agree, nothing is empty, and every symbol
\* indexes the symbol axis of emission
WellFormed ==
    /\ emission.n_rows >= 1 /\ emission.n_slices >= 1 /\ obs.n_cols >= 1
    /\ transition.n_rows = emission.n_rows /\ transition.n_cols = emission.n_rows
    /\ init.n_elem = emission.n_rows
    /\ emission.n_slices = (IF fn = "viterbix" THEN obs.n_rows ELSE obs.n_slices)
    /\ \A x \in DOMAIN obs.at : obs.at[x] \in 0..(emission.n_cols - 1)

\* no output is written yet
NoOutput ==
    /\ \A x \in DOMAIN alpha.at : alpha.at[x] = Unset
    /\ \A x \in DOMAIN q.at : q.at[x] = UnsetIndex
    /\ \A k \in DOMAIN logp.at : logp.at[k] = Unset

\* C6: a call that breaks a precondition ends in an error: it writes no
\* output table and no path, and no sequence is completed
C6_FailsFast ==
    ~WellFormed => (NoOutput /\ Finished = {})

=============================================================================
